---- MODULE Spec2Model ----
(***************************************************************************)
(* Unit conversion over a graph of conversion facts                        *)
(* (phantomgoose/unit_conversion: src/src/graph.rs, src/src/conversion.rs, *)
(* src/src/main.rs).                                                       *)
(*                                                                         *)
(* An f32 is modelled as a record [q, f]:                                  *)
(*   f  the float the machine holds, <<m, e>> for m * 2^e with             *)
(*      2^23 <= m < 2^24 (or <<0, 0>> for zero), every operation rounded   *)
(*      to nearest, ties to even;                                          *)
(*   q  the value of the same expression in exact arithmetic, a rational   *)
(*      <<n, d>> in lowest terms with d > 0.                               *)
(* Values are non-negative and within the normal range of f32.             *)
(***************************************************************************)
EXTENDS Integers, Sequences, FiniteSets, TLC

(***************************************************************************)
(* Bounds of the model                                                     *)
(***************************************************************************)
\* Longest enumerated fact list handed to ConversionGraph::new.
MaxFacts == 2

\* Longest fact list of the graphs one caller queries repeatedly or step by step.
MaxSoloFacts == 2

\* Longest fact list of the graphs two concurrent callers query.
MaxConcFacts == 1

(***************************************************************************)
(* Exact arithmetic                                                        *)
(***************************************************************************)
RECURSIVE Gcd(_, _)
Gcd(a, b) == IF b = 0 THEN a ELSE Gcd(b, a % b)

Abs(n) == IF n < 0 THEN -n ELSE n

Norm(n, d) ==
    LET g == Gcd(Abs(n), Abs(d))
        s == IF d < 0 THEN -1 ELSE 1
    IN  <<(s * n) \div g, (s * d) \div g>>

Mul(x, y) == Norm(x[1] * y[1], x[2] * y[2])

\* 1.0 / x, for x # 0
Inv(x) == Norm(x[2], x[1])

Div(x, y) == Mul(x, Inv(y))

One == <<1, 1>>

(***************************************************************************)
(* f32 arithmetic: 24-bit significands, round to nearest, ties to even     *)
(***************************************************************************)
Zero32 == <<0, 0>>

\* Powers of two of the format: the significand m has 2^23 <= m < 2^24.
Two12 == 2^12

Two23 == 2^23

Two24 == 2^24

\* m is the significand before rounding, twiceRem / (2 * unit) the fraction
\* of a unit in the last place that was cut off.
RoundEven(m, e, twiceRem, unit) ==
    LET up == twiceRem > unit \/ (twiceRem = unit /\ m % 2 = 1)
        m1 == IF up THEN m + 1 ELSE m
    IN  IF m1 = Two24 THEN <<Two23, e + 1>> ELSE <<m1, e>>

\* k more bits of the quotient (m * d + rem) / d, by long division, four
\* bits at a time (d < 2^27).
RECURSIVE QuotientBits(_, _, _, _)
QuotientBits(rem, d, m, k) ==
    IF k = 0 THEN <<m, rem>>
    ELSE LET c == IF k >= 4 THEN 4 ELSE k
             r == rem * 2^c
         IN  QuotientBits(r % d, d, m * 2^c + r \div d, k - c)

\* The f32 nearest to (n / d) * 2^e, for n >= 0 and 0 < d < 2^27.
RECURSIVE F32Ratio(_, _, _)
F32Ratio(n, d, e) ==
    IF n = 0 THEN Zero32
    ELSE IF n < d THEN F32Ratio(2 * n, d, e - 1)
    ELSE IF n >= 2 * d THEN F32Ratio(n, 2 * d, e + 1)
    ELSE LET b == QuotientBits(n - d, d, 1, 23)
         IN  RoundEven(b[1], e - 23, 2 * b[2], d)

\* 1.0 / x in f32, for x # 0
F32Recip(x) ==
    LET r == F32Ratio(Two24, x[1], -24) IN <<r[1], r[2] - x[2]>>

\* x * y in f32: the 48-bit product of the significands, in 12-bit limbs,
\* rounded to 24 bits.
F32Mul(x, y) ==
    IF x[1] = 0 \/ y[1] = 0 THEN Zero32
    ELSE LET a1 == x[1] \div Two12
             b1 == x[1] % Two12
             a2 == y[1] \div Two12
             b2 == y[1] % Two12
             c  == a1 * b2 + a2 * b1
             lf == (c % Two12) * Two12 + b1 * b2
             hi == a1 * a2 + c \div Two12 + lf \div Two24
             lo == lf % Two24
             e  == x[2] + y[2]
         IN  IF hi >= Two23
             THEN RoundEven(hi, e + 24, 2 * lo, Two24)
             ELSE RoundEven(2 * hi + lo \div Two23, e + 23, 2 * (lo % Two23), Two23)

\* The f32 a decimal literal n/d denotes (3.28 is F32(82, 25)).
F32(n, d) == [q |-> Norm(n, d), f |-> F32Ratio(n, d, 0)]

\* The payload a None does not have.
NoValue == [q |-> <<0, 1>>, f |-> Zero32]

(***************************************************************************)
(* Inputs of the enumerated callers                                        *)
(***************************************************************************)
\* Tokens the enumerated callers pass to UnitConversion::new ("km" is not a unit).
Tokens == {"m", "ft", "in", "km"}

\* Rates of the enumerated facts and input values of the enumerated queries.
Rates == {F32(1, 1), F32(2, 1)}

Values == {F32(3, 1), F32(1, 2)}

\* Scalars k of the linearity property.
Scalars == {F32(2, 1), F32(5, 1), F32(0, 1)}

(***************************************************************************)
(* conversion.rs: the vocabulary, Unit, UnitConversion                     *)
(***************************************************************************)
VALID_UNITS == {"m", "in", "hr", "ft", "min", "sec"}

\* impl From<&str> for Unit: the assert! panics on a token outside VALID_UNITS.
UnitFromNoAssert(value) == [panicked |-> FALSE, unit |-> value]

UnitFrom(value) ==
    IF value \in VALID_UNITS
    THEN [panicked |-> FALSE, unit |-> value]
    ELSE [panicked |-> TRUE, unit |-> ""]

\* UnitConversion::new: from is converted first, then to; either may panic.
UnitConversionNew(from, to, value) ==
    LET f == UnitFrom(from)
        t == UnitFrom(to)
    IN  IF f.panicked \/ t.panicked
        THEN [panicked |-> TRUE, from |-> "", to |-> "", value |-> NoValue]
        ELSE [panicked |-> FALSE, from |-> f.unit, to |-> t.unit, value |-> value]

\* impl From<&UnitConversion> for Connection<Unit>
ConnectionFrom(conversion) ==
    [from |-> conversion.from, to |-> conversion.to, value |-> conversion.value]

(***************************************************************************)
(* graph.rs: vertices live on a heap of reference-counted cells; the map   *)
(* holds the strong reference, edges hold weak ones.                       *)
(***************************************************************************)
\* impl From<T> for ArcVertex<T>: a fresh cell with no edges.
ArcVertexFrom(value) == [value |-> value, edges |-> <<>>, alive |-> TRUE]

EmptyGraph == [heap |-> <<>>, vertices |-> <<>>]

\* HashMap::insert of a fresh vertex: a vertex the map held for the key loses
\* its only strong reference and is dropped.
MapInsert(g, key) ==
    LET id   == Len(g.heap) + 1
        old  == IF key \in DOMAIN g.vertices THEN g.vertices[key] ELSE 0
        heap == [j \in 1..Len(g.heap) |->
                    IF j = old THEN [g.heap[j] EXCEPT !.alive = FALSE] ELSE g.heap[j]]
    IN  [heap     |-> Append(heap, ArcVertexFrom(key)),
         vertices |-> [k \in (DOMAIN g.vertices) \cup {key} |->
                          IF k = key THEN id ELSE g.vertices[k]]]

\* Graph::new, first loop: to is inserted, then from.
RECURSIVE InsertVertices(_, _, _)
InsertVertices(g, connections, i) ==
    IF i > Len(connections) THEN g
    ELSE InsertVertices(MapInsert(MapInsert(g, connections[i].to), connections[i].from),
                        connections, i + 1)

\* ArcVertex::add_edge: push onto the vertex's edge list.
AddEdge(g, id, edge) ==
    [g EXCEPT !.heap[id].edges = Append(@, edge)]

\* The weight of the edge back from destination to origin: 1.0 / fact.value.
InverseWeightSame(value) == value

InverseWeight(value) == [q |-> Inv(value.q), f |-> F32Recip(value.f)]

\* Graph::new, second loop: the forward edge, then the inverse edge.
RECURSIVE InsertEdges(_, _, _)
InsertEdges(g, connections, i) ==
    IF i > Len(connections) THEN g
    ELSE LET fact == connections[i]
         IN  IF fact.from \in DOMAIN g.vertices /\ fact.to \in DOMAIN g.vertices
             THEN LET origin      == g.vertices[fact.from]
                      destination == g.vertices[fact.to]
                      g1 == AddEdge(g, origin,
                                    [weight |-> fact.value, to |-> destination])
                      g2 == AddEdge(g1, destination,
                                    [weight |-> InverseWeight(fact.value), to |-> origin])
                  IN  InsertEdges(g2, connections, i + 1)
             ELSE InsertEdges(g, connections, i + 1)

\* Graph::new: every vertex is in the map before the first edge is made.
\* (variant: one loop, which makes a fact's edges right after inserting its
\* two vertices, so that a later fact replaces a vertex that has edges)
RECURSIVE InsertFacts(_, _, _)
InsertFacts(g, connections, i) ==
    IF i > Len(connections) THEN g
    ELSE LET fact == connections[i]
             g0 == MapInsert(MapInsert(g, fact.to), fact.from)
             origin      == g0.vertices[fact.from]
             destination == g0.vertices[fact.to]
             g1 == AddEdge(g0, origin, [weight |-> fact.value, to |-> destination])
             g2 == AddEdge(g1, destination,
                           [weight |-> InverseWeight(fact.value), to |-> origin])
         IN  InsertFacts(g2, connections, i + 1)

GraphNewOneLoop(connections) == InsertFacts(EmptyGraph, connections, 1)

GraphNew(connections) ==
    InsertEdges(InsertVertices(EmptyGraph, connections, 1), connections, 1)

\* ConversionGraph::new
ConversionGraphNew(facts) ==
    GraphNew([i \in 1..Len(facts) |-> ConnectionFrom(facts[i])])

(***************************************************************************)
(* graph.rs: the recursive search.  A call returns                         *)
(*   kind "some" with the path, "none", or "panic" (a weak reference that  *)
(*   no longer upgrades), and the visited set as the call left it.         *)
(* expanded is the sequence of values whose edge loop was entered.         *)
(***************************************************************************)
RetSome(path, visited, expanded) ==
    [kind |-> "some", path |-> path, visited |-> visited, expanded |-> expanded]

RetNone(visited, expanded) ==
    [kind |-> "none", path |-> <<>>, visited |-> visited, expanded |-> expanded]

RetPanic(visited, expanded) ==
    [kind |-> "panic", path |-> <<>>, visited |-> visited, expanded |-> expanded]

\* The checks traverse makes on the vertex it was handed, in the code's order.
\* (variant: the visited set is not consulted)
TraverseCheckNoVisited(vertex, target_value, visited) ==
    IF vertex.value = target_value THEN "some"
    ELSE IF vertex.edges = <<>> THEN "none"
    ELSE "expand"

TraverseCheck(vertex, target_value, visited) ==
    IF vertex.value = target_value THEN "some"
    ELSE IF vertex.edges = <<>> THEN "none"
    ELSE IF vertex.value \in visited THEN "none"
    ELSE "expand"

\* The path handed to the recursive call: a clone of path with the edge pushed.
UpdatedPathLastOnly(path, edge) == <<edge>>

UpdatedPath(path, edge) == Append(path, edge)

RECURSIVE Traverse(_, _, _, _, _, _)
RECURSIVE TraverseEdges(_, _, _, _, _, _, _)
\* (variant: the loop returns what its first edge returned)
TraverseEdgesFirstOnly(g, id, i, target_value, path, visited, expanded) ==
    IF i > Len(g.heap[id].edges) THEN RetNone(visited, expanded)
    ELSE Traverse(g, g.heap[id].edges[i].to, target_value,
                  UpdatedPath(path, g.heap[id].edges[i]), visited, expanded)

\* curr_vertex is a heap id, or 0 for None.
Traverse(g, curr_vertex, target_value, path, visited, expanded) ==
    IF curr_vertex = 0 THEN RetNone(visited, expanded)
    ELSE LET vertex == g.heap[curr_vertex]
             check  == TraverseCheck(vertex, target_value, visited)
         IN  CASE check = "some" -> RetSome(path, visited, expanded)
               [] check = "none" -> RetNone(visited, expanded)
               [] OTHER ->
                    TraverseEdges(g, curr_vertex, 1, target_value, path,
                                  visited \cup {vertex.value},
                                  Append(expanded, vertex.value))

\* The for loop over vertex.edges, from edge i on.
TraverseEdges(g, id, i, target_value, path, visited, expanded) ==
    IF i > Len(g.heap[id].edges) THEN RetNone(visited, expanded)
    ELSE LET edge == g.heap[id].edges[i]
         IN  IF ~g.heap[edge.to].alive THEN RetPanic(visited, expanded)
             ELSE LET r == Traverse(g, edge.to, target_value,
                                    UpdatedPath(path, edge), visited, expanded)
                  IN  IF r.kind = "none"
                      THEN TraverseEdges(g, id, i + 1, target_value, path,
                                         r.visited, r.expanded)
                      ELSE r

\* HashMap::get
MapGet(g, key) == IF key \in DOMAIN g.vertices THEN g.vertices[key] ELSE 0

\* Graph::find_path: a fresh path and a fresh visited set for every call;
\* left is the visited set an earlier call left behind, which is not used.
FindPathStale(g, from, to, left) ==
    Traverse(g, MapGet(g, from), to, <<>>, left, <<>>)

\* (variant: the start vertex is expanded without the target check)
FindPathSkipStart(g, from, to, left) ==
    IF MapGet(g, from) = 0 THEN RetNone({}, <<>>)
    ELSE TraverseEdges(g, MapGet(g, from), 1, to, <<>>, {from}, <<from>>)

\* (variant: from = to answered before the start vertex is looked up)
FindPathShortcut(g, from, to, left) ==
    IF from = to THEN RetSome(<<>>, {}, <<>>)
    ELSE Traverse(g, MapGet(g, from), to, <<>>, {}, <<>>)

FindPath(g, from, to, left) ==
    Traverse(g, MapGet(g, from), to, <<>>, {}, <<>>)

\* acc * edge.weight
\* (variant: the weights are added to the seed)
TimesAsPlus(x, y) ==
    [q |-> Norm(x.q[1] * y.q[2] + y.q[1] * x.q[2], x.q[2] * y.q[2]),
     f |-> F32Ratio(x.q[1] * y.q[2] + y.q[1] * x.q[2], x.q[2] * y.q[2], 0)]

Times(x, y) == [q |-> Mul(x.q, y.q), f |-> F32Mul(x.f, y.f)]

\* The fold of fold_path: acc * edge.weight over the path, in order.
RECURSIVE Fold(_, _, _)
Fold(path, i, acc) ==
    IF i > Len(path) THEN acc
    ELSE Fold(path, i + 1, Times(acc, path[i].weight))

\* Graph::fold_path, wrapped by ConversionGraph::convert into ConversionResult.
FoldPath(g, from, to, value, left) ==
    LET r == FindPath(g, from, to, left)
    IN  IF r.kind = "some"
        THEN [kind |-> "some", value |-> Fold(r.path, 1, value), path |-> r.path,
              visited |-> r.visited]
        ELSE [kind |-> r.kind, value |-> NoValue, path |-> <<>>, visited |-> r.visited]

\* ConversionGraph::convert
Convert(g, q, left) == FoldPath(g, q.from, q.to, q.value, left)

(***************************************************************************)
(* main.rs / tests.rs: the reference facts and the tests' queries          *)
(***************************************************************************)
TEST_FACTS ==
    << [panicked |-> FALSE, from |-> "m",   to |-> "ft",  value |-> F32(82, 25)],
       [panicked |-> FALSE, from |-> "ft",  to |-> "in",  value |-> F32(12, 1)],
       [panicked |-> FALSE, from |-> "hr",  to |-> "min", value |-> F32(60, 1)],
       [panicked |-> FALSE, from |-> "min", to |-> "sec", value |-> F32(60, 1)] >>

TestQueries ==
    { <<"m", "in", F32(2, 1)>>, <<"in", "m", F32(13, 1)>>,
      <<"sec", "hr", F32(3600, 1)>>, <<"in", "hr", F32(13, 1)>> }

\* What a caller may pass to UnitConversion::new for a query.
QueryInputs == (Tokens \X Tokens \X Values) \cup TestQueries

(***************************************************************************)
(* The sequential program: facts are constructed, the graph is built once, *)
(* then queries are converted one after another.                           *)
(***************************************************************************)
VARIABLES
    pc,       \* "facts": collecting facts; "ready": graph built; "panicked"
    facts,    \* the Vec<UnitConversion> handed to ConversionGraph::new
    graph,    \* the Graph: heap of vertices and the map value -> vertex
    attempt,  \* the tokens of the latest UnitConversion::new call and its outcome
    query,    \* the latest query converted (a one-element sequence), or <<>>
    result,   \* its ConversionResult and the path folded (one element), or <<>>
    visited,  \* the visited set the latest search left when it returned
    again,    \* whether a query was converted before the latest one
    locks,    \* per vertex, the RwLock: readers holding it, writer or not
    thr       \* per concurrent caller, its query and the search's call stack

vars == <<pc, facts, graph, attempt, query, result, visited, again, locks, thr>>

NoAttempt == [from |-> "", to |-> "", panicked |-> FALSE]

Threads == {"t1", "t2"}

Idle ==
    [status |-> "idle", query |-> <<>>, stack |-> <<>>, visited |-> {},
     ret |-> <<>>, result |-> <<>>, expanded |-> <<>>]

\* The RwLock of every vertex the graph holds, after Graph::new: each write
\* guard of add_edge was dropped as soon as the edge was pushed.
Unlocked(g) ==
    [id \in {j \in 1..Len(g.heap) : g.heap[j].alive} |->
        [readers |-> 0, writer |-> FALSE]]

Init ==
    /\ pc = "facts"
    /\ facts \in {<<>>, TEST_FACTS}
    /\ graph = EmptyGraph
    /\ attempt = NoAttempt
    /\ query = <<>>
    /\ result = <<>>
    /\ visited = {}
    /\ again = FALSE
    /\ locks = <<>>
    /\ thr = [t \in Threads |-> Idle]

\* A panic unwinds the caller: nothing it held survives.
Panicked(from, to) ==
    /\ pc' = "panicked"
    /\ facts' = <<>>
    /\ graph' = EmptyGraph
    /\ attempt' = [from |-> from, to |-> to, panicked |-> TRUE]
    /\ query' = <<>>
    /\ result' = <<>>
    /\ visited' = {}
    /\ again' = FALSE
    /\ locks' = <<>>
    /\ UNCHANGED thr

\* UnitConversion::new for a fact, pushed onto the fact list.
NewFact(from, to, rate) ==
    /\ pc = "facts"
    /\ Len(facts) < MaxFacts
    /\ LET c == UnitConversionNew(from, to, rate)
       IN  IF c.panicked
           THEN Panicked(from, to)
           ELSE /\ facts' = Append(facts, c)
                /\ attempt' = [from |-> from, to |-> to, panicked |-> FALSE]
                /\ UNCHANGED <<pc, graph, query, result, visited, again, locks, thr>>

\* ConversionGraph::new(facts)
Build ==
    /\ pc = "facts"
    /\ graph' = ConversionGraphNew(facts)
    /\ locks' = Unlocked(graph')
    /\ pc' = "ready"
    /\ UNCHANGED <<facts, attempt, query, result, visited, again, thr>>

\* graph.convert(UnitConversion::new(from, to, value))
ConvertQuery(from, to, value) ==
    /\ pc = "ready"
    /\ LET q == UnitConversionNew(from, to, value)
       IN  IF q.panicked
           THEN Panicked(from, to)
           ELSE LET r == Convert(graph, q, visited)
                IN  /\ query' = <<q>>
                    /\ result' = <<[kind |-> r.kind, value |-> r.value, path |-> r.path]>>
                    /\ visited' = r.visited
                    /\ again' = (query # <<>>)
                    /\ attempt' = [from |-> from, to |-> to, panicked |-> FALSE]
                    /\ UNCHANGED <<pc, facts, graph, locks, thr>>

\* main.rs: the facts, the graph, one query.
Next ==
    \/ \E from \in Tokens, to \in Tokens, rate \in Rates : NewFact(from, to, rate)
    \/ Build
    \/ \E q \in QueryInputs : query = <<>> /\ ConvertQuery(q[1], q[2], q[3])

Spec == Init /\ [][Next]_vars

(***************************************************************************)
(* Concurrent callers on a built graph.  Each caller runs traverse one     *)
(* step at a time; a frame of its stack is one activation of traverse:     *)
(*   at "lock"  it is about to take the read lock (get_vertex),            *)
(*   at "loop"  it holds the guard and is about to follow edge i,          *)
(*   at "ret"   it holds the guard and is about to return thr.ret.         *)
(***************************************************************************)
ConcRates == {F32(2, 1)}

ConcValues == {F32(3, 1)}

ConcTokens == Tokens \cap VALID_UNITS

\* The units of the facts of the graphs two concurrent callers query; their
\* queries range over ConcTokens.
ConcFactTokens == {"m", "ft"}

\* The lists of at most n facts over the given tokens.
RECURSIVE FactListsOver(_, _)
FactListsOver(tokens, n) ==
    IF n = 0 THEN {<<>>}
    ELSE LET shorter == FactListsOver(tokens, n - 1)
         IN  shorter \cup
             { Append(l, UnitConversionNew(f, t, r)) :
                 l \in {x \in shorter : Len(x) = n - 1},
                 f \in tokens, t \in tokens, r \in ConcRates }

FactLists(n) == FactListsOver(ConcTokens, n)

ConcQueryInputs == ConcTokens \X ConcTokens \X ConcValues

\* A graph already built from one of the given fact lists.
InitBuilt(lists) ==
    /\ pc = "ready"
    /\ facts \in lists
    /\ graph = ConversionGraphNew(facts)
    /\ attempt = NoAttempt
    /\ query = <<>>
    /\ result = <<>>
    /\ visited = {}
    /\ again = FALSE
    /\ locks = Unlocked(graph)
    /\ thr = [t \in Threads |-> Idle]

\* RwLock::read: granted unless a writer holds the lock; a reader that
\* already holds it is granted it again.
\* (variant: a lock that admits one holder at a time)
ReadGrantedExclusive(lock) == lock.readers = 0 /\ ~lock.writer

ReadGranted(lock) == ~lock.writer

Frame(id, path) == [vertex |-> id, path |-> path, at |-> "lock", i |-> 0]

Top(t) == thr[t].stack[Len(thr[t].stack)]

SetTop(t, frame) == [thr[t].stack EXCEPT ![Len(thr[t].stack)] = frame]

\* convert -> fold_path -> find_path: look the start up, call traverse on it
\* with a fresh path and a fresh visited set.
Start(t, from, to, value) ==
    /\ pc = "ready"
    /\ thr[t].status \in {"idle", "done"}
    /\ LET q == UnitConversionNew(from, to, value)
           start == MapGet(graph, q.from)
       IN  /\ ~q.panicked
           /\ thr' = [thr EXCEPT ![t] =
                 [status |-> "running", query |-> <<q>>,
                  stack |-> IF start = 0 THEN <<>> ELSE <<Frame(start, <<>>)>>,
                  visited |-> {},
                  ret |-> IF start = 0 THEN <<[kind |-> "none", path |-> <<>>]>> ELSE <<>>,
                  result |-> <<>>, expanded |-> <<>>]]
    /\ UNCHANGED <<pc, facts, graph, attempt, query, result, visited, again, locks>>

\* Entry of traverse: curr_vertex?.get_vertex() takes the read lock of the
\* frame's vertex, then the checks before the loop are made under the guard:
\* target found, no edges, already visited.
Enter(t) ==
    /\ thr[t].status = "running"
    /\ thr[t].stack # <<>>
    /\ Top(t).at = "lock"
    /\ ReadGranted(locks[Top(t).vertex])
    /\ locks' = [locks EXCEPT ![Top(t).vertex].readers = @ + 1]
    /\ LET vertex == graph.heap[Top(t).vertex]
           check  == TraverseCheck(vertex, thr[t].query[1].to, thr[t].visited)
       IN  CASE check = "some" ->
                  thr' = [thr EXCEPT
                     ![t].stack = SetTop(t, [Top(t) EXCEPT !.at = "ret"]),
                     ![t].ret = <<[kind |-> "some", path |-> Top(t).path]>>]
             [] check = "none" ->
                  thr' = [thr EXCEPT
                     ![t].stack = SetTop(t, [Top(t) EXCEPT !.at = "ret"]),
                     ![t].ret = <<[kind |-> "none", path |-> <<>>]>>]
             [] OTHER ->
                  thr' = [thr EXCEPT
                     ![t].stack = SetTop(t, [Top(t) EXCEPT !.at = "loop", !.i = 1]),
                     ![t].visited = @ \cup {vertex.value},
                     ![t].expanded = Append(@, vertex.value)]
    /\ UNCHANGED <<pc, facts, graph, attempt, query, result, visited, again>>

\* One turn of the for loop: follow edge i (upgrade its weak reference and
\* call traverse on it), or fall out of the loop and return None.
Loop(t) ==
    /\ thr[t].status = "running"
    /\ thr[t].stack # <<>>
    /\ Top(t).at = "loop"
    /\ LET edges == graph.heap[Top(t).vertex].edges
           i     == Top(t).i
       IN  IF i > Len(edges)
           THEN thr' = [thr EXCEPT
                   ![t].stack = SetTop(t, [Top(t) EXCEPT !.at = "ret"]),
                   ![t].ret = <<[kind |-> "none", path |-> <<>>]>>]
           ELSE IF ~graph.heap[edges[i].to].alive
           THEN thr' = [thr EXCEPT
                   ![t].stack = SetTop(t, [Top(t) EXCEPT !.at = "ret"]),
                   ![t].ret = <<[kind |-> "panic", path |-> <<>>]>>]
           ELSE thr' = [thr EXCEPT
                   ![t].stack = Append(@, Frame(edges[i].to,
                                                UpdatedPath(Top(t).path, edges[i])))]
    /\ UNCHANGED <<pc, facts, graph, attempt, query, result, visited, again, locks>>

\* Return from traverse: the guard is dropped; the caller's loop goes on to
\* its next edge after None and returns whatever else it was handed.
Return(t) ==
    /\ thr[t].status = "running"
    /\ thr[t].stack # <<>>
    /\ Top(t).at = "ret"
    /\ locks' = [locks EXCEPT ![Top(t).vertex].readers = @ - 1]
    /\ LET n == Len(thr[t].stack)
           rest == SubSeq(thr[t].stack, 1, n - 1)
       IN  IF n = 1 THEN thr' = [thr EXCEPT ![t].stack = <<>>]
           ELSE IF thr[t].ret[1].kind = "none"
           THEN thr' = [thr EXCEPT ![t].stack =
                           [rest EXCEPT ![n - 1].i = @ + 1],
                        ![t].ret = <<>>]
           ELSE thr' = [thr EXCEPT ![t].stack = [rest EXCEPT ![n - 1].at = "ret"]]
    /\ UNCHANGED <<pc, facts, graph, attempt, query, result, visited, again>>

\* fold_path's fold over what find_path returned, wrapped by convert.
Finish(t) ==
    /\ thr[t].status = "running"
    /\ thr[t].stack = <<>>
    /\ LET r == thr[t].ret[1]
       IN  thr' = [thr EXCEPT
              ![t].status = "done",
              ![t].ret = <<>>,
              ![t].result =
                  IF r.kind = "some"
                  THEN <<[kind |-> "some", value |-> Fold(r.path, 1, thr[t].query[1].value),
                          path |-> r.path]>>
                  ELSE <<[kind |-> r.kind, value |-> NoValue, path |-> <<>>]>>]
    /\ UNCHANGED <<pc, facts, graph, attempt, query, result, visited, again, locks>>

Step(t) == Enter(t) \/ Loop(t) \/ Return(t) \/ Finish(t)

NextConc ==
    \/ \E t \in Threads, q \in ConcQueryInputs : Start(t, q[1], q[2], q[3])
    \/ \E t \in Threads : Enter(t)
    \/ \E t \in Threads : Loop(t)
    \/ \E t \in Threads : Return(t)
    \/ \E t \in Threads : Finish(t)

InitConc == InitBuilt(FactListsOver(ConcFactTokens, MaxConcFacts))

SpecConc == InitConc /\ [][NextConc]_vars

(***************************************************************************)
(* One caller, step by step; its thread runs whenever it can.              *)
(***************************************************************************)
InitStep == InitBuilt(FactLists(MaxSoloFacts))

NextStep ==
    \/ \E q \in ConcQueryInputs : Start("t1", q[1], q[2], q[3])
    \/ Enter("t1")
    \/ Loop("t1")
    \/ Return("t1")
    \/ Finish("t1")

SpecStep == InitStep /\ [][NextStep]_vars

FairStep == SpecStep /\ WF_vars(Step("t1"))

(***************************************************************************)
(* One caller converting any number of queries, one after another, on a    *)
(* graph already built (the tests' shared TEST_GRAPH among them).          *)
(***************************************************************************)
InitSeq == InitBuilt(FactLists(MaxSoloFacts) \cup {TEST_FACTS})

NextSeq == \E q \in QueryInputs : ConvertQuery(q[1], q[2], q[3])

SpecSeq == InitSeq /\ [][NextSeq]_vars

(***************************************************************************)
(* What the claims speak of, stated on the fact list itself                *)
(***************************************************************************)
UnitsOf(fs) == {fs[i].from : i \in 1..Len(fs)} \cup {fs[i].to : i \in 1..Len(fs)}

\* The units one fact away from a unit of set, in either direction.
Neighbours(fs, set) ==
    {fs[i].to : i \in {j \in 1..Len(fs) : fs[j].from \in set}}
        \cup {fs[i].from : i \in {j \in 1..Len(fs) : fs[j].to \in set}}

RECURSIVE Closure(_, _, _)
Closure(fs, set, n) ==
    IF n = 0 THEN set ELSE Closure(fs, set \cup Neighbours(fs, set), n - 1)

\* The connected component of u in the undirected closure of the facts.
Component(fs, u) == Closure(fs, {u}, Cardinality(UnitsOf(fs)))

\* Every fact read in both directions, with its rate in exact arithmetic.
Hops(fs) ==
    {[from |-> fs[i].from, to |-> fs[i].to, w |-> fs[i].value.q] : i \in 1..Len(fs)}
        \cup {[from |-> fs[i].to, to |-> fs[i].from, w |-> Inv(fs[i].value.q)] :
                 i \in 1..Len(fs)}

RECURSIVE Ratios(_, _, _)
\* <<u, p>>: some chain of at most n hops from the units of set reaches u
\* with product p.
Ratios(fs, set, n) ==
    IF n = 0 THEN set
    ELSE Ratios(fs,
                set \cup {<<hp[1].to, Mul(hp[2][2], hp[1].w)>> :
                             hp \in {x \in Hops(fs) \X set : x[1].from = x[2][1]}},
                n - 1)

\* The facts agree: no two chains of facts give two rates for one pair of units.
Consistent(fs) ==
    \A a \in UnitsOf(fs) :
        \A p, q \in Ratios(fs, {<<a, One>>}, Cardinality(UnitsOf(fs))) :
            p[1] = q[1] => p[2] = q[2]

Answered == pc = "ready" /\ query # <<>> /\ result # <<>>

Q == query[1]

R == result[1]

Present(v) == [kind |-> "some", value |-> v]

\* The result as the caller sees it, and its value in exact arithmetic.
Outcome(r) == [kind |-> r.kind, value |-> r.value]

Exact(r) == [kind |-> r.kind, value |-> r.value.q]

\* A query along fact i, and against it.
Along(i) == Q.from = facts[i].from /\ Q.to = facts[i].to

Against(i) == Q.from = facts[i].to /\ Q.to = facts[i].from

(***************************************************************************)
(* C1                                                                      *)
(***************************************************************************)
\* C1 as stated: on the graph built from any fact list with positive rates,
\* for every fact (A, B, r) of the list, convert(A, B, v) is present and
\* equals v * r, and convert(B, A, v) is present and equals v / r (in exact
\* arithmetic).
C1_FactRateAnyList ==
    Answered =>
        \A i \in 1..Len(facts) :
            /\ Along(i) => Exact(R) = Present(Mul(Q.value.q, facts[i].value.q))
            /\ Against(i) => Exact(R) = Present(Div(Q.value.q, facts[i].value.q))

\* C1 amended: the same, for fact lists whose facts agree with each other
\* (no two chains of facts, a fact with itself included, give two rates for
\* one pair of units).
C1_FactRateConsistent ==
    (Answered /\ Consistent(facts)) =>
        \A i \in 1..Len(facts) :
            /\ Along(i) => Exact(R) = Present(Mul(Q.value.q, facts[i].value.q))
            /\ Against(i) => Exact(R) = Present(Div(Q.value.q, facts[i].value.q))

\* A query against a fact of rate 2 between two units, one of two facts that
\* agree: the answer is half the input.
C1_Witness ==
    /\ Answered
    /\ Len(facts) = 2
    /\ Consistent(facts)
    /\ facts[1] # facts[2]
    /\ \E i \in 1..2 :
          /\ facts[i].from # facts[i].to
          /\ facts[i].value = F32(2, 1)
          /\ Against(i)
    /\ Exact(R) = Present(Div(Q.value.q, <<2, 1>>))

(***************************************************************************)
(* C2                                                                      *)
(***************************************************************************)
\* C2: for units A, B that both appear in the fact list, convert(A, B, v) is
\* absent exactly when A and B lie in different connected components of the
\* undirected closure of the facts, and present when they lie in the same.
C2_AbsentIffDisconnected ==
    (Answered /\ Q.from \in UnitsOf(facts) /\ Q.to \in UnitsOf(facts)) =>
        /\ R.kind \in {"some", "none"}
        /\ R.kind = "none" <=> Q.to \notin Component(facts, Q.from)

\* Two units of the facts in different components: absent.
C2_WitnessAbsent ==
    /\ Answered
    /\ facts # TEST_FACTS
    /\ Len(facts) = 2
    /\ Q.from \in UnitsOf(facts) /\ Q.to \in UnitsOf(facts)
    /\ Q.to \notin Component(facts, Q.from)
    /\ Cardinality(Component(facts, Q.from)) = 2
    /\ R.kind = "none"

(***************************************************************************)
(* C3                                                                      *)
(***************************************************************************)
\* path is a sequence of edges of g leading from the vertex of from to a
\* vertex whose value is to.
RECURSIVE IsPathFrom(_, _, _, _, _)
IsPathFrom(g, id, path, i, to) ==
    IF i > Len(path) THEN g.heap[id].value = to
    ELSE /\ \E j \in 1..Len(g.heap[id].edges) : g.heap[id].edges[j] = path[i]
         /\ g.heap[path[i].to].alive
         /\ IsPathFrom(g, path[i].to, path, i + 1, to)

\* The product of the weights of path[i..] in exact arithmetic, taken from
\* the right.
RECURSIVE Product(_, _)
Product(path, i) ==
    IF i > Len(path) THEN One ELSE Mul(path[i].weight.q, Product(path, i + 1))

\* ((v * w1) * w2) * ... in f32, over the weights of path[i..].
RECURSIVE LeftProduct32(_, _, _)
LeftProduct32(v, path, i) ==
    IF i > Len(path) THEN v
    ELSE LeftProduct32(F32Mul(v, path[i].weight.f), path, i + 1)

\* A query of the tests on the reference facts.
Asked(from, to, n) == facts = TEST_FACTS /\ <<Q.from, Q.to, Q.value>> = <<from, to, F32(n, 1)>>

\* C3: a present result is the input value times the weights, in path order,
\* of a sequence of edges of the built graph that leads from the query's
\* from to its to, in f32 as in exact arithmetic; with the reference facts
\* convert(m, in, 2) is 2 * 3.28 * 12 (exactly 1968/25), convert(in, m, 13) is
\* 13 * (1/12) * (1/3.28) (exactly 325/984) and convert(sec, hr, 3600) is
\* 3600 * (1/60) * (1/60) (exactly 1).
C3_PresentIsPathProduct ==
    (Answered /\ R.kind = "some") =>
        /\ Q.from \in DOMAIN graph.vertices
        /\ IsPathFrom(graph, graph.vertices[Q.from], R.path, 1, Q.to)
        /\ R.value.q = Mul(Q.value.q, Product(R.path, 1))
        /\ R.value.f = LeftProduct32(Q.value.f, R.path, 1)
        /\ Asked("m", "in", 2) =>
              /\ R.value.q = <<1968, 25>>
              /\ R.value.f = F32Mul(F32Mul(F32(2, 1).f, F32(82, 25).f), F32(12, 1).f)
        /\ Asked("in", "m", 13) =>
              /\ R.value.q = <<325, 984>>
              /\ R.value.f = F32Mul(F32Mul(F32(13, 1).f, F32Recip(F32(12, 1).f)),
                                    F32Recip(F32(82, 25).f))
        /\ Asked("sec", "hr", 3600) =>
              /\ R.value.q = <<1, 1>>
              /\ R.value.f = F32Mul(F32Mul(F32(3600, 1).f, F32Recip(F32(60, 1).f)),
                                    F32Recip(F32(60, 1).f))

\* tests.rs, it_works_for_in_to_m: two hops against the facts.
C3_Witness ==
    /\ Answered
    /\ facts = TEST_FACTS
    /\ Asked("in", "m", 13)
    /\ R.kind = "some"
    /\ Len(R.path) = 2
    /\ R.value.f = F32(33028457, 100000000).f

(***************************************************************************)
(* C4                                                                      *)
(***************************************************************************)
\* C4: for a unit A of the facts, convert(A, A, v) is present and is v, by the
\* zero-length path.
C4_Identity ==
    (Answered /\ Q.from = Q.to /\ Q.from \in UnitsOf(facts)) =>
        /\ Outcome(R) = Present(Q.value)
        /\ R.path = <<>>

\* A unit whose only fact is from itself to itself at a rate other than 1.
C4_Witness ==
    /\ Answered
    /\ Q.from = Q.to
    /\ \E i \in 1..Len(facts) :
          facts[i].from = Q.from /\ facts[i].to = Q.from /\ facts[i].value = F32(2, 1)
    /\ Outcome(R) = Present(Q.value)

(***************************************************************************)
(* C5                                                                      *)
(***************************************************************************)
\* x * k as the caller computes it.
Scale(x, k) == [q |-> Mul(x.q, k.q), f |-> F32Mul(x.f, k.f)]

\* The query with its input value scaled by k.
Scaled(q, k) == [q EXCEPT !.value = Scale(q.value, k)]

\* C5 as stated: convert(A, B, v) and convert(A, B, v * k) are both absent or
\* both present, and when present convert(A, B, v) * k == convert(A, B, v * k).
C5_LinearF32 ==
    Answered =>
        \A k \in Scalars :
            LET r2 == Convert(graph, Scaled(Q, k), {})
            IN  /\ r2.kind = R.kind
                /\ R.kind = "some" => Scale(R.value, k).f = r2.value.f

\* C5 amended: convert(A, B, v) and convert(A, B, v * k) are both absent or
\* both present, by the same path, and when present convert(A, B, v) * k is
\* convert(A, B, v * k) in exact arithmetic.
C5_LinearExact ==
    Answered =>
        \A k \in Scalars :
            LET r2 == Convert(graph, Scaled(Q, k), {})
            IN  /\ r2.kind = R.kind
                /\ r2.path = R.path
                /\ R.kind = "some" => Scale(R.value, k).q = r2.value.q

\* tests.rs, it_works_for_m_to_in, scaled by 5: the same two hops, the same
\* exact value 1968/5, and f32 results one unit in the last place apart.
C5_Witness ==
    /\ Answered
    /\ Asked("m", "in", 2)
    /\ Len(R.path) = 2
    /\ LET r2 == Convert(graph, Scaled(Q, F32(5, 1)), {})
       IN  /\ r2.path = R.path
           /\ r2.value.q = <<1968, 5>>
           /\ Scale(R.value, F32(5, 1)).q = <<1968, 5>>
           /\ r2.value.f # Scale(R.value, F32(5, 1)).f

(***************************************************************************)
(* C6                                                                      *)
(***************************************************************************)
Attempted == attempt # NoAttempt

\* C6: UnitConversion::new is rejected exactly when its from token or its to
\* token is outside the vocabulary; nothing is built from or answered for a
\* rejected construction, and every fact, vertex and query holds units of the
\* vocabulary.
C6_UnknownTokenRejected ==
    /\ Attempted =>
          (attempt.panicked <=>
              (attempt.from \notin VALID_UNITS \/ attempt.to \notin VALID_UNITS))
    /\ attempt.panicked <=> pc = "panicked"
    /\ pc = "panicked" =>
          /\ facts = <<>> /\ graph = EmptyGraph /\ query = <<>> /\ result = <<>>
          /\ ~ENABLED Next
    /\ UnitsOf(facts) \subseteq VALID_UNITS
    /\ DOMAIN graph.vertices \subseteq VALID_UNITS
    /\ query # <<>> => (Q.from \in VALID_UNITS /\ Q.to \in VALID_UNITS)
    /\ (Attempted /\ ~attempt.panicked) =>
          \/ query # <<>> /\ Q.from = attempt.from /\ Q.to = attempt.to
          \/ /\ query = <<>> /\ facts # <<>>
             /\ facts[Len(facts)].from = attempt.from
             /\ facts[Len(facts)].to = attempt.to

\* A query on a built graph whose to token alone is unknown.
C6_Witness ==
    /\ pc = "panicked"
    /\ attempt.panicked
    /\ attempt.from \in VALID_UNITS
    /\ attempt.to \notin VALID_UNITS

(***************************************************************************)
(* C7                                                                      *)
(***************************************************************************)
\* C7: a query with two tokens of the vocabulary whose from or to appears in
\* no fact (from = to included), or whose units no chain of facts connects,
\* is answered, and the answer is the absent result.
C7_AbsentNotRejected ==
    (/\ pc # "facts"
     /\ Attempted
     /\ attempt.from \in VALID_UNITS /\ attempt.to \in VALID_UNITS
     /\ \/ attempt.from \notin UnitsOf(facts)
        \/ attempt.to \notin UnitsOf(facts)
        \/ attempt.to \notin Component(facts, attempt.from)) =>
        /\ pc = "ready"
        /\ ~attempt.panicked
        /\ query # <<>> /\ result # <<>>
        /\ Q.from = attempt.from /\ Q.to = attempt.to
        /\ Outcome(R) = [kind |-> "none", value |-> NoValue]

\* from = to, a unit of the vocabulary that is in no fact of a non-empty graph.
C7_Witness ==
    /\ Answered
    /\ facts # <<>>
    /\ Q.from = Q.to
    /\ Q.from \notin UnitsOf(facts)
    /\ R.kind = "none"

(***************************************************************************)
(* C8                                                                      *)
(***************************************************************************)
\* The read guards caller t holds on vertex id.
Held(t, id) ==
    Cardinality({n \in 1..Len(thr[t].stack) :
                    thr[t].stack[n].vertex = id /\ thr[t].stack[n].at # "lock"})

\* What the query returns when it runs alone.
Alone(q) ==
    LET r == Convert(graph, q, {})
    IN  [kind |-> r.kind, value |-> r.value, path |-> r.path]

\* C8: with the graph built, concurrent queries in any interleaving hold only
\* read locks (a query may hold the read lock of one vertex several times),
\* no lock has a writer, no running query is ever blocked, the graph stays as
\* built, and a finished query has the result it has when run alone.
C8_ConcurrentQueriesSafe ==
    /\ graph = ConversionGraphNew(facts)
    /\ \A id \in DOMAIN locks :
          /\ ~locks[id].writer
          /\ locks[id].readers = Held("t1", id) + Held("t2", id)
    /\ \A t \in Threads :
          /\ thr[t].status = "running" => ENABLED Step(t)
          /\ thr[t].status = "done" => thr[t].result[1] = Alone(thr[t].query[1])

\* One caller holds the read lock of a vertex twice, having come back to it
\* while recursing, while the other caller holds it too.
C8_Witness ==
    \E id \in DOMAIN locks :
        /\ Held("t1", id) = 2
        /\ Held("t2", id) >= 1
        /\ thr["t1"].query # thr["t2"].query

(***************************************************************************)
(* C9                                                                      *)
(***************************************************************************)
\* The search from scratch on the graph as constructed from the facts.
Fresh(q) ==
    LET g == ConversionGraphNew(facts)
        r == Traverse(g, MapGet(g, q.from), q.to, <<>>, {}, <<>>)
    IN  [kind  |-> r.kind,
         value |-> IF r.kind = "some"
                   THEN [q |-> Mul(q.value.q, Product(r.path, 1)),
                         f |-> LeftProduct32(q.value.f, r.path, 1)]
                   ELSE NoValue,
         path  |-> r.path]

\* C9: after any sequence of queries the vertex map and every edge list are
\* as construction left them, no lock is held, and the latest query has the
\* result of a search started from scratch, whatever ran before it.
C9_QueriesLeaveNoTrace ==
    pc = "ready" =>
        /\ graph = ConversionGraphNew(facts)
        /\ locks = Unlocked(graph)
        /\ Answered => R = Fresh(Q)

\* A present answer over at least one edge to a query that came after another.
C9_Witness ==
    /\ Answered
    /\ again
    /\ Len(facts) = 2
    /\ R.kind = "some"
    /\ Len(R.path) = 2

(***************************************************************************)
(* C10                                                                     *)
(***************************************************************************)
Caller == thr["t1"]

\* No value has its edges explored twice within one query.
ExpandedOnce ==
    \A i, j \in 1..Len(Caller.expanded) :
        i # j => Caller.expanded[i] # Caller.expanded[j]

\* C10: within one query no unit value is expanded more than once (so the
\* recursion is never deeper than the units of the graph plus one), and every
\* query that starts finishes.
C10_SearchTerminates ==
    /\ [](ExpandedOnce /\ Len(Caller.stack) <= Cardinality(UnitsOf(facts)) + 1)
    /\ [](Caller.status = "running" => <>(Caller.status = "done"))

\* A finished search for a unit that is not there, over a self-loop and a
\* cycle: both units were expanded, each once.
C10_Witness ==
    /\ Caller.status = "done"
    /\ Caller.result[1].kind = "none"
    /\ Len(Caller.expanded) = 2
    /\ Len(facts) = 2
    /\ facts[1].from = facts[1].to
    /\ facts[2].from # facts[2].to

(***************************************************************************)
(* C11                                                                     *)
(***************************************************************************)
\* The edge list of the vertex the map holds for u.
EdgesOf(u) == graph.heap[graph.vertices[u]].edges

\* 1 / x, in exact arithmetic and in f32.
Reciprocal(x) == [q |-> Inv(x.q), f |-> F32Recip(x.f)]

\* The edges the facts fs[i..] give unit u, in fact order: for a fact from u
\* the edge to its to at its rate, for a fact to u the edge to its from at
\* 1 / rate.
RECURSIVE ExpectedEdges(_, _, _)
ExpectedEdges(fs, u, i) ==
    IF i > Len(fs) THEN <<>>
    ELSE LET forward == IF fs[i].from = u
                        THEN <<[weight |-> fs[i].value, to |-> fs[i].to]>>
                        ELSE <<>>
             inverse == IF fs[i].to = u
                        THEN <<[weight |-> Reciprocal(fs[i].value), to |-> fs[i].from]>>
                        ELSE <<>>
         IN  forward \o inverse \o ExpectedEdges(fs, u, i + 1)

\* The edge list of u with every destination read as the unit it holds.
SeenEdges(u) ==
    [j \in 1..Len(EdgesOf(u)) |->
        [weight |-> EdgesOf(u)[j].weight, to |-> graph.heap[EdgesOf(u)[j].to].value]]

\* The vertices are those of the facts' units, and the edges are exactly the
\* two of every fact, in fact order, each pointing at the vertex the map
\* holds for its destination; a discarded vertex has no edge.
EdgesAsFacts ==
    /\ DOMAIN graph.vertices = UnitsOf(facts)
    /\ \A u \in DOMAIN graph.vertices :
          /\ graph.heap[graph.vertices[u]].alive
          /\ graph.heap[graph.vertices[u]].value = u
          /\ SeenEdges(u) = ExpectedEdges(facts, u, 1)
          /\ \A j \in 1..Len(EdgesOf(u)) :
                /\ graph.heap[EdgesOf(u)[j].to].alive
                /\ EdgesOf(u)[j].to = graph.vertices[graph.heap[EdgesOf(u)[j].to].value]
    /\ \A id \in 1..Len(graph.heap) :
          ~graph.heap[id].alive => graph.heap[id].edges = <<>>

\* Every edge A -> B has an edge B -> A whose weight Matches(w, back).
EveryEdgeHasBack(Matches(_, _)) ==
    \A u \in DOMAIN graph.vertices :
        \A j \in 1..Len(EdgesOf(u)) :
            LET edge == EdgesOf(u)[j]
                b    == graph.heap[edge.to].value
            IN  /\ b \in DOMAIN graph.vertices
                /\ \E k \in 1..Len(EdgesOf(b)) :
                      /\ EdgesOf(b)[k].to = graph.vertices[u]
                      /\ Matches(edge.weight, EdgesOf(b)[k].weight)

\* back is 1.0 / w, as the machine computes it.
BackIsInverse32(w, back) == back.f = F32Recip(w.f)

\* back is 1 / w in exact arithmetic, and in f32 one of the two is 1.0 / the
\* other.
BackIsInverseExact(w, back) ==
    /\ back.q = Inv(w.q)
    /\ back.f = F32Recip(w.f) \/ w.f = F32Recip(back.f)

\* C11 as stated: after Graph::new the edges are exactly, for every fact in
\* fact order, from -> to at the rate and to -> from at 1 / rate, on the
\* vertices the map holds, none lost or pointing at a discarded vertex, so
\* every edge A -> B of weight w has a matching edge B -> A of weight 1 / w.
C11_EdgesInverse32 ==
    pc = "ready" => (EdgesAsFacts /\ EveryEdgeHasBack(BackIsInverse32))

\* C11 amended: the same edges, and every edge A -> B of weight w has a
\* matching edge B -> A whose weight is 1 / w in exact arithmetic; in f32 one
\* of the two weights is 1.0 divided by the other.
C11_EdgesInverseExact ==
    pc = "ready" => (EdgesAsFacts /\ EveryEdgeHasBack(BackIsInverseExact))

\* The reference graph: ft and min are in two facts each, so their first
\* vertices were discarded; min has the inverse edge to hr, then the edge to
\* sec, and 1.0 / (1.0 / 60.0) is not 60.0.
C11_Witness ==
    /\ pc = "ready"
    /\ facts = TEST_FACTS
    /\ \E id \in 1..Len(graph.heap) : ~graph.heap[id].alive
    /\ SeenEdges("min") = <<[weight |-> Reciprocal(F32(60, 1)), to |-> "hr"],
                            [weight |-> F32(60, 1), to |-> "sec"]>>
    /\ F32Recip(Reciprocal(F32(60, 1)).f) # F32(60, 1).f

====
